---- MODULE Spec2Model ----
(***************************************************************************)
(* django_messages: the Message table, the MessageManager views and the    *)
(* ComposeForm.save compose/reply workflow, as a state machine.            *)
(*                                                                         *)
(* The store is the Message table (row k has primary key k).  Each request *)
(* handler runs ComposeForm.save step by step: the code takes no lock and  *)
(* opens no transaction, so every database write is a step of its own and  *)
(* other requests interleave between the writes.                           *)
(***************************************************************************)
EXTENDS Integers, Sequences, FiniteSets, TLC

\* ------------------------------------------------------------ bounds
MaxMsgs == 3
MaxTime == 2
\* How many read-marking and soft-delete requests a run holds.
MaxViews == 1

\* The request handlers running concurrently.
Procs == {"h1", "h2"}

\* ------------------------------------------------------------ values
\* None / SQL NULL.  Primary keys and clock readings are >= 1.
Null == 0

\* The principals: an entity type and a numeric id.  User 1 and Group 1
\* share the numeric id.
Principals ==
  { [model |-> "User", id |-> 1],
    [model |-> "Group", id |-> 1] }

\* ContentType.objects.get_for_model(obj)
get_for_model(obj) == obj.model

\* subject = CharField(max_length=120)
SubjectMaxLength == 120

\* Submitted form data: subject and body are represented by their lengths
\* (the workflow copies them and never looks inside).
SubjectLens == {0, 120, 121}
BodyLens == {0, 1}
FormData == [subject : SubjectLens, body : BodyLens]

\* Form validation: both CharFields are required, subject has max_length.
is_valid(data) ==
  /\ data.subject >= 1
  /\ data.subject <= SubjectMaxLength
  /\ data.body >= 1

VARIABLES
  store,         \* the Message table: a sequence of rows, row k has id k
  now,           \* the clock timezone.now() reads
  notification,  \* whether the forms module imported the notification app
  pc,            \* each handler's position in ComposeForm.save
  sender,        \* each handler's sender argument
  recipient,     \* each handler's recipient argument
  parent_msg,    \* each handler's parent_msg argument: <<>> or <<object>>
  msg,           \* each handler's msg object
  cleaned_data,  \* each handler's validated form data
  sent,          \* the notifications each handler's call has dispatched
  views          \* how many read-marking and soft-delete requests have run

vars == <<store, now, notification, pc, sender, recipient, parent_msg, msg, cleaned_data, sent, views>>

\* ------------------------------------------------------------ Message
\* Message(...) mutated: sender and recipient are exchanged.
Message_swapped(s, r, subject, body) ==
  [ id |-> Null,
    subject |-> subject,
    body |-> body,
    r_content_type |-> get_for_model(s),
    r_object_id |-> s.id,
    s_content_type |-> get_for_model(r),
    s_object_id |-> r.id,
    parent_msg |-> Null,
    sent_at |-> Null,
    read_at |-> Null,
    replied_at |-> Null,
    sender_deleted_at |-> Null,
    recipient_deleted_at |-> Null ]

\* Message(sender=..., recipient=..., subject=..., body=...): an unsaved
\* instance.  Assigning a GenericForeignKey stores the content type and the
\* object id of the value.
Message(s, r, subject, body) ==
  [ id |-> Null,
    subject |-> subject,
    body |-> body,
    r_content_type |-> get_for_model(r),
    r_object_id |-> r.id,
    s_content_type |-> get_for_model(s),
    s_object_id |-> s.id,
    parent_msg |-> Null,
    sent_at |-> Null,
    read_at |-> Null,
    replied_at |-> Null,
    sender_deleted_at |-> Null,
    recipient_deleted_at |-> Null ]

\* The GenericForeignKey descriptors.
sender_of(m) == [model |-> m.s_content_type, id |-> m.s_object_id]
recipient_of(m) == [model |-> m.r_content_type, id |-> m.r_object_id]

\* Message.save mutated: sent_at is stamped on every save.
Message_save_always_stamps(obj, t) == [obj EXCEPT !.sent_at = t]

\* Message.save, the part before super().save(): an instance without an id
\* gets sent_at = timezone.now().
Message_save(obj, t) ==
  IF obj.id = Null THEN [obj EXCEPT !.sent_at = t] ELSE obj

\* super(Message, self).save(): an instance without an id is inserted under
\* the next primary key; one with an id has its whole row rewritten from the
\* instance's fields.
db_save(st, obj) ==
  IF obj.id = Null
    THEN Append(st, [obj EXCEPT !.id = Len(st) + 1])
    ELSE [st EXCEPT ![obj.id] = obj]

\* parent_msg.replied_at = timezone.now(), forgotten.
set_replied_at_forgotten(obj, t) == obj

\* parent_msg.replied_at = timezone.now()
set_replied_at(obj, t) == [obj EXCEPT !.replied_at = t]

Ids == DOMAIN store

\* ------------------------------------------------------------ MessageManager
\* The names a filter() keyword can resolve: the model's concrete fields.
\* sender and recipient are GenericForeignKeys: they are no fields of the
\* table and filter() cannot resolve them (django.contrib.contenttypes:
\* "you cannot use such fields directly with filters"); it raises FieldError.
LookupFields ==
  { "id", "subject", "body", "r_content_type", "r_object_id",
    "s_content_type", "s_object_id", "parent_msg", "sent_at", "read_at",
    "replied_at", "sender_deleted_at", "recipient_deleted_at" }

\* self.filter(**lookups), given the lookups' field names and the rows that
\* satisfy them: those rows, or the exception raised while the query is built.
\* Rows are primary keys: a WHERE clause over one table yields each row at
\* most once.
filter(names, matching) ==
  IF names \subseteq LookupFields
    THEN [raised |-> "", rows |-> matching]
    ELSE [raised |-> "FieldError", rows |-> {}]

\* qs1 | qs2: the rows of either.  Either operand's exception propagates.
qs_or(a, b) ==
  IF a.raised # "" THEN a
  ELSE IF b.raised # "" THEN b
  ELSE [raised |-> "", rows |-> a.rows \cup b.rows]

\* inbox_for mutated: the content type is not compared.
inbox_for_by_id_only(user) ==
  filter({"r_object_id", "recipient_deleted_at"},
         { k \in Ids : /\ store[k].r_object_id = user.id
                       /\ store[k].recipient_deleted_at = Null })

inbox_for(user) ==
  filter({"r_object_id", "r_content_type", "recipient_deleted_at"},
         { k \in Ids : /\ store[k].r_object_id = user.id
                       /\ store[k].r_content_type = get_for_model(user)
                       /\ store[k].recipient_deleted_at = Null })

\* outbox_for mutated: the recipient's deletion flag is tested.
outbox_for_wrong_flag(user) ==
  filter({"s_object_id", "s_content_type", "recipient_deleted_at"},
         { k \in Ids : /\ store[k].s_object_id = user.id
                       /\ store[k].s_content_type = get_for_model(user)
                       /\ store[k].recipient_deleted_at = Null })

outbox_for(user) ==
  filter({"s_object_id", "s_content_type", "sender_deleted_at"},
         { k \in Ids : /\ store[k].s_object_id = user.id
                       /\ store[k].s_content_type = get_for_model(user)
                       /\ store[k].sender_deleted_at = Null })

trash_for(user) ==
  qs_or(filter({"recipient", "recipient_deleted_at"},
               { k \in Ids : /\ recipient_of(store[k]) = user
                             /\ store[k].recipient_deleted_at # Null }),
        filter({"sender", "sender_deleted_at"},
               { k \in Ids : /\ sender_of(store[k]) = user
                             /\ store[k].sender_deleted_at # Null }))

NoPrincipal == [model |-> "", id |-> Null]
NoData == [subject |-> 0, body |-> 0]

Init ==
  /\ store = <<>>
  /\ now = 1
  /\ notification \in BOOLEAN
  /\ pc = [i \in Procs |-> "idle"]
  /\ sender = [i \in Procs |-> NoPrincipal]
  /\ recipient = [i \in Procs |-> NoPrincipal]
  /\ parent_msg = [i \in Procs |-> <<>>]
  /\ msg = [i \in Procs |-> <<>>]
  /\ cleaned_data = [i \in Procs |-> NoData]
  /\ sent = [i \in Procs |-> <<>>]
  /\ views = 0

\* ------------------------------------------------------------ ComposeForm.save
\* The table has room for the row of one more call: the rows stored and the
\* rows the calls under way will insert stay within MaxMsgs.
Room ==
  Len(store) + Cardinality({j \in Procs : pc[j] \in {"called", "parent_saved"}})
    < MaxMsgs

\* ComposeForm.save is entered: cleaned_data (present only once the form has
\* validated) is read and msg is constructed.  parent_msg is None or the
\* instance of a stored row as the caller fetched it: its fields are the
\* row's at this moment.
Call(i, S, R) ==
  /\ pc[i] = "idle"
  /\ Room
  /\ \E data \in FormData, s \in S, r \in R,
        p \in {<<>>} \cup {<<store[k]>> : k \in Ids} :
       /\ is_valid(data)
       /\ cleaned_data' = [cleaned_data EXCEPT ![i] = data]
       /\ sender' = [sender EXCEPT ![i] = s]
       /\ recipient' = [recipient EXCEPT ![i] = r]
       /\ parent_msg' = [parent_msg EXCEPT ![i] = p]
       /\ msg' = [msg EXCEPT ![i] = <<Message(s, r, data.subject, data.body)>>]
  /\ pc' = [pc EXCEPT ![i] = "called"]
  /\ UNCHANGED <<store, now, notification, sent, views>>

\* if parent_msg is not None: msg.parent_msg = parent_msg;
\* parent_msg.replied_at = timezone.now(); parent_msg.save()
SaveParent(i) ==
  /\ pc[i] = "called"
  /\ parent_msg[i] # <<>>
  /\ LET p == set_replied_at(parent_msg[i][1], now)
         saved == Message_save(p, now)
     IN /\ store' = db_save(store, saved)
        /\ parent_msg' = [parent_msg EXCEPT ![i] = <<saved>>]
        /\ msg' = [msg EXCEPT ![i] = <<[msg[i][1] EXCEPT !.parent_msg = p.id]>>]
  /\ pc' = [pc EXCEPT ![i] = "parent_saved"]
  /\ UNCHANGED <<now, notification, sender, recipient, cleaned_data, sent, views>>

\* msg.save(); message_list.append(msg)
SaveMsg(i) ==
  /\ \/ pc[i] = "called" /\ parent_msg[i] = <<>>
     \/ pc[i] = "parent_saved"
  /\ store' = db_save(store, Message_save(msg[i][1], now))
  /\ msg' = [msg EXCEPT ![i] = <<store'[Len(store')]>>]
  /\ pc' = [pc EXCEPT ![i] = "msg_saved"]
  /\ UNCHANGED <<now, notification, sender, recipient, parent_msg, cleaned_data, sent, views>>

\* The request is over: the frame of save() and its objects are dropped.
Dropped(i) ==
  /\ pc' = [pc EXCEPT ![i] = "idle"]
  /\ sender' = [sender EXCEPT ![i] = NoPrincipal]
  /\ recipient' = [recipient EXCEPT ![i] = NoPrincipal]
  /\ parent_msg' = [parent_msg EXCEPT ![i] = <<>>]
  /\ msg' = [msg EXCEPT ![i] = <<>>]
  /\ cleaned_data' = [cleaned_data EXCEPT ![i] = NoData]
  /\ sent' = [sent EXCEPT ![i] = <<>>]

\* A save() raises (the backend fails, the process dies): nothing catches it
\* and nothing is undone, the request ends where it is.
PersistenceError(i) ==
  /\ pc[i] \in {"called", "parent_saved"}
  /\ Dropped(i)
  /\ UNCHANGED <<store, now, notification, views>>

\* if notification: is false; return message_list
Return(i) ==
  /\ pc[i] = "msg_saved"
  /\ ~notification
  /\ pc' = [pc EXCEPT ![i] = "returned"]
  /\ UNCHANGED <<store, now, notification, sender, recipient, parent_msg, msg, cleaned_data, sent, views>>

\* notification.send([sender], "messages_replied" | "messages_sent", ...)
NotifySender(i) ==
  /\ pc[i] = "msg_saved"
  /\ notification
  /\ sent' = [sent EXCEPT ![i] = Append(@,
       [ to |-> sender[i],
         label |-> IF parent_msg[i] # <<>> THEN "messages_replied" ELSE "messages_sent",
         message |-> msg[i][1].id ])]
  /\ pc' = [pc EXCEPT ![i] = "sender_notified"]
  /\ UNCHANGED <<store, now, notification, sender, recipient, parent_msg, msg, cleaned_data, views>>

\* notification.send([r], ...): no name r is bound in save() or in the module,
\* evaluating [r] raises NameError before send is called.
NotifyR(i) ==
  /\ pc[i] = "sender_notified"
  /\ pc' = [pc EXCEPT ![i] = "NameError"]
  /\ UNCHANGED <<store, now, notification, sender, recipient, parent_msg, msg, cleaned_data, sent, views>>

\* The caller has the list, or the exception, and the request ends.
EndRequest(i) ==
  /\ pc[i] \in {"returned", "NameError"}
  /\ Dropped(i)
  /\ UNCHANGED <<store, now, notification, views>>

\* ------------------------------------------------------------ other requests
\* The recipient views message k: read_at is set.
MarkRead(k) ==
  /\ k \in Ids
  /\ views < MaxViews
  /\ store[k].read_at = Null
  /\ store' = [store EXCEPT ![k].read_at = now]
  /\ views' = views + 1
  /\ UNCHANGED <<now, notification, pc, sender, recipient, parent_msg, msg, cleaned_data, sent>>

\* The sender deletes their view of message k.
DeleteAsSender(k) ==
  /\ k \in Ids
  /\ views < MaxViews
  /\ store[k].sender_deleted_at = Null
  /\ store' = [store EXCEPT ![k].sender_deleted_at = now]
  /\ views' = views + 1
  /\ UNCHANGED <<now, notification, pc, sender, recipient, parent_msg, msg, cleaned_data, sent>>

\* The recipient deletes their view of message k.
DeleteAsRecipient(k) ==
  /\ k \in Ids
  /\ views < MaxViews
  /\ store[k].recipient_deleted_at = Null
  /\ store' = [store EXCEPT ![k].recipient_deleted_at = now]
  /\ views' = views + 1
  /\ UNCHANGED <<now, notification, pc, sender, recipient, parent_msg, msg, cleaned_data, sent>>

\* Time passes.
Tick ==
  /\ now < MaxTime
  /\ now' = now + 1
  /\ UNCHANGED <<store, notification, pc, sender, recipient, parent_msg, msg, cleaned_data, sent, views>>

\* The sender and the recipient the handlers of Spec are called with.
Alice == [model |-> "User", id |-> 1]
Team == [model |-> "Group", id |-> 1]

\* Concurrent compose and reply calls.
Next ==
  \/ \E i \in Procs : Call(i, {Alice}, {Team})
  \/ \E i \in Procs : SaveParent(i)
  \/ \E i \in Procs : SaveMsg(i)
  \/ \E i \in Procs : PersistenceError(i)
  \/ \E i \in Procs : Return(i)
  \/ \E i \in Procs : NotifySender(i)
  \/ \E i \in Procs : NotifyR(i)
  \/ \E i \in Procs : EndRequest(i)
  \/ Tick

Spec == Init /\ [][Next]_vars

\* One handler composing and replying as User 1 to any principal (itself
\* included), with the read-marking and soft-delete requests of the other
\* views in between its steps; the notification app is not installed.
InitViews == Init /\ ~notification

NextViews ==
  \/ Call("h1", {Alice}, Principals)
  \/ SaveParent("h1")
  \/ SaveMsg("h1")
  \/ PersistenceError("h1")
  \/ Return("h1")
  \/ EndRequest("h1")
  \/ \E k \in 1..MaxMsgs : MarkRead(k)
  \/ \E k \in 1..MaxMsgs : DeleteAsSender(k)
  \/ \E k \in 1..MaxMsgs : DeleteAsRecipient(k)

SpecViews == InitViews /\ [][NextViews]_vars

\* ------------------------------------------------------------ claims
Written == {"msg_saved", "sender_notified", "returned", "NameError"}

\* C1: once a reply call on a stored parent p has made its writes (and from
\* then on, whatever the other call does), p's stored replied_at is non-null
\* and the new message is stored with parent_msg = p.
C1_ReplyMarksParent ==
  \A i \in Procs :
    (pc[i] \in Written /\ parent_msg[i] # <<>>) =>
      LET p == parent_msg[i][1].id
          m == msg[i][1].id
      IN /\ p \in Ids
         /\ m \in Ids
         /\ m # p
         /\ store[p].replied_at # Null
         /\ store[m].parent_msg = p

\* Both handlers have returned from replies to the same parent, written at
\* different times; the row holds one of the two times.
C1_Witness ==
  /\ pc["h1"] = "returned"
  /\ pc["h2"] = "returned"
  /\ parent_msg["h1"] # <<>>
  /\ parent_msg["h2"] # <<>>
  /\ parent_msg["h1"][1].id = parent_msg["h2"][1].id
  /\ parent_msg["h1"][1].replied_at # parent_msg["h2"][1].replied_at
  /\ msg["h1"][1].id # msg["h2"][1].id

\* The two notifications the documented dispatch sends for handler i's call.
ExpectedNotifications(i) ==
  << [ to |-> sender[i],
       label |-> IF parent_msg[i] # <<>> THEN "messages_replied" ELSE "messages_sent",
       message |-> msg[i][1].id ],
     [ to |-> recipient[i],
       label |-> IF parent_msg[i] # <<>> THEN "messages_reply_received"
                                         ELSE "messages_received",
       message |-> msg[i][1].id ] >>

\* C2: with the notification app enabled, a call that has stored its message
\* ends by returning, having dispatched exactly the two notifications.
C2_TwoNotificationsThenReturn ==
  \A i \in Procs :
    (notification /\ pc[i] \in {"returned", "NameError"}) =>
      /\ pc[i] = "returned"
      /\ sent[i] = ExpectedNotifications(i)

\* C3: a stored read_at or replied_at that is non-null is non-null after
\* every step.
C3_ReadRepliedNeverCleared ==
  [][\A k \in Ids :
       /\ store[k].read_at # Null => store'[k].read_at # Null
       /\ store[k].replied_at # Null => store'[k].replied_at # Null]_vars

\* C4: a row is inserted with sent_at set to the clock's reading, and no step
\* changes the sent_at of a stored row.
C4_SentAtSetOnce ==
  [][/\ \A k \in Ids : k \in DOMAIN store' /\ store'[k].sent_at = store[k].sent_at
     /\ \A k \in DOMAIN store' : k \notin Ids => store'[k].sent_at = now]_vars

\* A parent was saved by a reply at a later clock reading than its insert.
C4_Witness ==
  \E k \in Ids :
    /\ store[k].sent_at # Null
    /\ store[k].replied_at > store[k].sent_at

\* The row a compose call by handler i inserts.
ComposedRow(i) ==
  [ id |-> Len(store) + 1,
    subject |-> cleaned_data[i].subject,
    body |-> cleaned_data[i].body,
    r_content_type |-> recipient[i].model,
    r_object_id |-> recipient[i].id,
    s_content_type |-> sender[i].model,
    s_object_id |-> sender[i].id,
    parent_msg |-> Null,
    sent_at |-> now,
    read_at |-> Null,
    replied_at |-> Null,
    sender_deleted_at |-> Null,
    recipient_deleted_at |-> Null ]

\* C8: the write of a compose call (no parent_msg) adds exactly one row, with
\* the given sender, recipient, subject and body, sent_at set and every other
\* timestamp and parent_msg null, and leaves every other row as it was.
C8_ComposeAddsOneRow ==
  [][\A i \in Procs :
       (pc[i] = "called" /\ parent_msg[i] = <<>> /\ pc'[i] = "msg_saved") =>
         /\ is_valid(cleaned_data[i])
         /\ ComposedRow(i).sent_at # Null
         /\ store' = Append(store, ComposedRow(i))]_vars

\* A compose call has written its row into a table that held rows already.
C8_Witness ==
  \E i \in Procs :
    /\ pc[i] = "msg_saved"
    /\ parent_msg[i] = <<>>
    /\ msg[i][1].id = Len(store)
    /\ Len(store) >= 2

\* C9: every stored message with replied_at non-null has a stored reply.
C9_RepliedHasReply ==
  \A k \in Ids :
    store[k].replied_at # Null => \E c \in Ids : store[c].parent_msg = k

\* The messages the documented trash of u holds.
TrashRows(u) ==
  { k \in Ids :
      \/ recipient_of(store[k]) = u /\ store[k].recipient_deleted_at # Null
      \/ sender_of(store[k]) = u /\ store[k].sender_deleted_at # Null }

\* C5: trash_for(u) returns exactly the messages u received and deleted or
\* sent and deleted, each once.
C5_TrashExact ==
  \A u \in Principals : trash_for(u) = [raised |-> "", rows |-> TrashRows(u)]

\* C6: inbox_for(u) returns exactly the messages whose recipient is u (entity
\* type and id) and whose recipient_deleted_at is null.
C6_InboxExact ==
  \A u \in Principals :
    inbox_for(u) =
      [ raised |-> "",
        rows |-> { k \in Ids : /\ recipient_of(store[k]) = u
                               /\ store[k].recipient_deleted_at = Null } ]

\* A message is in u's inbox, another is addressed to a principal of another
\* entity type with u's numeric id, a third was addressed to u and deleted.
C6_Witness ==
  \E u \in Principals : \E a, b, c \in Ids :
    /\ a \in inbox_for(u).rows
    /\ recipient_of(store[b]) # u
    /\ store[b].r_object_id = u.id
    /\ store[b].recipient_deleted_at = Null
    /\ recipient_of(store[c]) = u
    /\ store[c].recipient_deleted_at # Null

\* C7: a recipient's soft-delete leaves every outbox_for as it was, a sender's
\* soft-delete leaves every inbox_for as it was, and the row stays.
C7_SoftDeletePerParty ==
  [][\A k \in Ids :
       /\ DeleteAsRecipient(k) =>
            /\ k \in DOMAIN store'
            /\ \A u \in Principals : outbox_for(u)' = outbox_for(u)
       /\ DeleteAsSender(k) =>
            /\ k \in DOMAIN store'
            /\ \A u \in Principals : inbox_for(u)' = inbox_for(u)]_vars

\* A message deleted by its recipient is listed in its sender's outbox.
C7_Witness ==
  \E k \in Ids :
    /\ store[k].recipient_deleted_at # Null
    /\ k \in outbox_for(sender_of(store[k])).rows

\* C10: for every u, trash_for(u) shares no message with inbox_for(u) and none
\* with outbox_for(u).
C10_ViewsDisjoint ==
  \A u \in Principals :
    /\ trash_for(u).raised = ""
    /\ inbox_for(u).rows \cap trash_for(u).rows = {}
    /\ outbox_for(u).rows \cap trash_for(u).rows = {}
====
